---- MODULE Spec2Model ----
(***************************************************************************)
(* State-machine model of the RAG assistant: vectordb.py (VectorDB),       *)
(* safety.py (validate_query) and app.py (load_documents, RAGAssistant,    *)
(* main).                                                                  *)
(*                                                                         *)
(* Texts (chunks, queries, input lines) are tuples of one-character        *)
(* strings so that strip(), lower() and the substring test are computed.   *)
(* A document is [isStr, segs]: isStr is the isinstance(doc, str) test,    *)
(* segs is the segmentation RecursiveCharacterTextSplitter.split_text      *)
(* yields for it; the text of the document is the concatenation of segs.   *)
(* A record of the collection is [id, text, meta, emb].                    *)
(***************************************************************************)
EXTENDS Integers, Sequences, FiniteSets, TLC

VARIABLES
    store,      \* the persisted collection "rag_docs": sequence of records
    pc,         \* position of the process
    lastOp,     \* outcome of the last call made on the objects
    dataDir,    \* the data/ directory read by load_documents
    startups,   \* number of runs of main() that reached the query loop
    asked,      \* whether ask() has been called in the current run
    lastLine,   \* what the last input() call produced
    wpc,        \* concurrent writers: position inside add_documents
    wbatch,     \* concurrent writers: chunks, metadatas, embeddings, ids
    wstart,     \* concurrent writers: start_index
    stale,      \* concurrent writers: an add completed since count() was read
    lock,       \* owner of the write lock, 0 when free
    useLock     \* whether writers take the lock across count() and add()

vars == <<store, pc, lastOp, dataDir, startups, asked, lastLine,
          wpc, wbatch, wstart, stale, lock, useLock>>

-----------------------------------------------------------------------------
(* Bounds *)

MaxDocs == 3          \* longest documents list given to the chunking loop
MaxStore == 4         \* largest collection explored
MaxStartups == 3      \* runs of main() explored

-----------------------------------------------------------------------------
(* Text primitives *)

WS == {" ", "\t", "\n"}

UpperAlpha == <<"A","B","C","D","E","F","G","H","I","J","K","L","M",
                "N","O","P","Q","R","S","T","U","V","W","X","Y","Z">>
LowerAlpha == <<"a","b","c","d","e","f","g","h","i","j","k","l","m",
                "n","o","p","q","r","s","t","u","v","w","x","y","z">>

LowerChar(c) ==
    IF \E i \in 1..Len(UpperAlpha) : UpperAlpha[i] = c
    THEN LowerAlpha[CHOOSE i \in 1..Len(UpperAlpha) : UpperAlpha[i] = c]
    ELSE c

\* str.lower()
Lower(s) == [i \in 1..Len(s) |-> LowerChar(s[i])]

\* str.strip()
Strip(s) ==
    LET keep == {i \in 1..Len(s) : s[i] \notin WS}
    IN IF keep = {} THEN <<>>
       ELSE LET lo == CHOOSE i \in keep : \A j \in keep : i <= j
                hi == CHOOSE i \in keep : \A j \in keep : i >= j
            IN SubSeq(s, lo, hi)

\* `not s or not s.strip()`
IsBlank(s) == Len(s) = 0 \/ Len(Strip(s)) = 0

\* `term in s`
Contains(term, s) ==
    \E i \in 1..(Len(s) - Len(term) + 1) : SubSeq(s, i, i + Len(term) - 1) = term

RECURSIVE Concat(_)
Concat(ss) == IF Len(ss) = 0 THEN <<>> ELSE Head(ss) \o Concat(Tail(ss))

RECURSIVE JoinWith(_, _)
\* sep.join(ss)
JoinWith(sep, ss) ==
    IF Len(ss) = 0 THEN <<>>
    ELSE IF Len(ss) = 1 THEN ss[1]
    ELSE ss[1] \o sep \o JoinWith(sep, Tail(ss))

-----------------------------------------------------------------------------
(* safety.py *)

BLOCKED_TERMS ==
    << <<"i","l","l","e","g","a","l">>,
       <<"v","i","o","l","e","n","c","e">>,
       <<"h","a","t","e">>,
       <<"s","e","l","f","-","h","a","r","m">>,
       <<"e","x","p","l","i","c","i","t">> >>

\* validate_query comparing the terms with the query as typed
validate_query_CaseSensitive(query) ==
    IF IsBlank(query) THEN "EmptyQueryNotAllowed"
    ELSE IF \E t \in 1..Len(BLOCKED_TERMS) : Contains(BLOCKED_TERMS[t], query)
         THEN "SafetyViolation"
         ELSE "none"

\* validate_query: the error it raises, "none" when it returns
validate_query(query) ==
    IF IsBlank(query) THEN "EmptyQueryNotAllowed"
    ELSE IF \E t \in 1..Len(BLOCKED_TERMS) : Contains(BLOCKED_TERMS[t], Lower(query))
         THEN "SafetyViolation"
         ELSE "none"

-----------------------------------------------------------------------------
(* Embedding model and collection.  Both are library objects held by       *)
(* VectorDB (self.embedding_model, self.collection); they are modelled by   *)
(* what the calls made on them in vectordb.py rely on: a deterministic      *)
(* embedding, a collection that appends records, counts them, refuses       *)
(* sequences of unequal length, and answers a query with the nearest        *)
(* records by cosine distance.                                              *)

FirstHalf == {"a","b","c","d","e","f","g","h","i","j","k","l","m"}

\* Deterministic embedding of a text: a two-dimensional positive vector.
Embed(text) ==
    << 1 + Cardinality({i \in 1..Len(text) : LowerChar(text[i]) \in FirstHalf}),
       1 + Cardinality({i \in 1..Len(text) :
                           LowerChar(text[i]) \notin FirstHalf \cup WS}) >>

Dot(u, v) == u[1] * v[1] + u[2] * v[2]

\* cosine distance of a to q is at most that of b to q (vectors are positive,
\* so the cosines are compared through their squares)
CloserOrEqual(q, a, b) ==
    Dot(q, a) * Dot(q, a) * Dot(b, b) >= Dot(q, b) * Dot(q, b) * Dot(a, a)

\* collection.count()
Count(st) == Len(st)

IdsOf(st) == {st[i].id : i \in 1..Len(st)}

HasDuplicate(s) == \E i, j \in 1..Len(s) : i # j /\ s[i] = s[j]

\* collection.add(ids, documents, embeddings, metadatas): the outcomes the
\* store can produce.  The four sequences must have one length and the ids of
\* the batch must be distinct.  A batch naming an id that is already present is
\* refused as a whole by some stores and written without those ids by others.
StoreAdd(st, ids, documents, embeddings, metadatas) ==
    IF Len(ids) # Len(documents) \/ Len(ids) # Len(embeddings)
         \/ Len(ids) # Len(metadatas) \/ HasDuplicate(ids)
    THEN {[err |-> "StoreValidation", store |-> st]}
    ELSE LET recs == [i \in 1..Len(ids) |->
                        [id |-> ids[i], text |-> documents[i],
                         meta |-> metadatas[i], emb |-> embeddings[i]]]
             fresh == SelectSeq(recs, LAMBDA r : r.id \notin IdsOf(st))
         IN IF Len(fresh) = Len(recs) THEN {[err |-> "none", store |-> st \o recs]}
            ELSE {[err |-> "StoreDuplicateId", store |-> st],
                  [err |-> "none", store |-> st \o fresh]}

RECURSIVE Ranked(_, _)
\* the records of st by ascending cosine distance to q, ties in insertion order
Ranked(q, st) ==
    IF Len(st) = 0 THEN <<>>
    ELSE LET best == CHOOSE i \in 1..Len(st) :
                        /\ \A j \in 1..Len(st) : CloserOrEqual(q, st[i].emb, st[j].emb)
                        /\ \A j \in 1..(i - 1) : ~CloserOrEqual(q, st[j].emb, st[i].emb)
             rest == [k \in 1..(Len(st) - 1) |-> IF k < best THEN st[k] ELSE st[k + 1]]
         IN <<st[best]>> \o Ranked(q, rest)

\* collection.query(query_embeddings=[q], n_results=n): the n nearest records,
\* all of them when fewer than n exist
StoreQuery(st, q, n) ==
    LET r == Ranked(q, st)
    IN SubSeq(r, 1, IF Len(r) < n THEN Len(r) ELSE n)

-----------------------------------------------------------------------------
(* vectordb.py: VectorDB.add_documents *)

\* the text of a document
DocText(doc) == Concat(doc.segs)

\* splitter.split_text(doc)
split_text(doc) == doc.segs

\* `not isinstance(doc, str) or not doc.strip()`
SkippedDoc(doc) == ~doc.isStr \/ Len(Strip(DocText(doc))) = 0

\* inner loop with doc_id counted from 1
DocChunks_OneBased(doc_id, doc) ==
    LET split_chunks == split_text(doc)
        all == [c \in 1..Len(split_chunks) |->
                  [text |-> split_chunks[c],
                   meta |-> [doc_id |-> doc_id + 1, chunk_id |-> c - 1,
                             length |-> Len(split_chunks[c])]]]
    IN SelectSeq(all, LAMBDA e : Len(Strip(e.text)) # 0)

\* inner loop, lines 66-75: the (chunk, metadata) pairs of one document
DocChunks(doc_id, doc) ==
    LET split_chunks == split_text(doc)
        all == [c \in 1..Len(split_chunks) |->
                  [text |-> split_chunks[c],
                   meta |-> [doc_id |-> doc_id, chunk_id |-> c - 1,
                             length |-> Len(split_chunks[c])]]]
    IN SelectSeq(all, LAMBDA e : Len(Strip(e.text)) # 0)

RECURSIVE ChunkLoop(_, _)
\* outer loop, lines 60-75, from position doc_id of enumerate(documents) on
ChunkLoop(documents, doc_id) ==
    IF doc_id >= Len(documents) THEN <<>>
    ELSE (IF SkippedDoc(documents[doc_id + 1]) THEN <<>>
          ELSE DocChunks(doc_id, documents[doc_id + 1]))
         \o ChunkLoop(documents, doc_id + 1)

BuildChunks(documents) == ChunkLoop(documents, 0)

\* ids numbered from 0 in every call
MakeIds_Unseeded(start_index, n) == [i \in 1..n |-> "chunk_" \o ToString(i - 1)]

\* ids numbered from start_index + 1
MakeIds_OffByOne(start_index, n) == [i \in 1..n |-> "chunk_" \o ToString(start_index + i)]

\* ids for i in range(1, n)
MakeIds_SkipFirst(start_index, n) ==
    [i \in 1..(n - 1) |-> "chunk_" \o ToString(start_index + i)]

\* f"chunk_{start_index + i}" for i in range(n)
MakeIds(start_index, n) == [i \in 1..n |-> "chunk_" \o ToString(start_index + i - 1)]

\* embedding_model.embed_documents(chunks): what the embedder hands back when
\* it returns: one embedding per chunk, none, one too few or one too many
EmbOutcomes == {"ok", "empty", "short", "long"}

EmbedDocuments(chunks, emb) ==
    LET full == [i \in 1..Len(chunks) |-> Embed(chunks[i])]
    IN CASE emb = "ok"    -> full
         [] emb = "short" -> SubSeq(full, 1, Len(full) - 1)
         [] emb = "long"  -> Append(full, Embed(<<>>))
         [] OTHER         -> <<>>

NoCall == [err |-> "none", calls |-> <<>>, nemb |-> -1, start |-> -1,
           ids |-> <<>>, chunks |-> <<>>, metadatas |-> <<>>]

\* the rest of add_documents without the `if not embeddings` test
AfterEmbedding_NoEmptyCheck(st, base, embeddings) ==
    LET start_index == Count(st)
        ids == MakeIds(start_index, Len(base.chunks))
    IN {[base EXCEPT !.err = added.err, !.nemb = Len(embeddings),
                     !.calls = <<"embed_documents", "count", "add">>,
                     !.start = start_index,
                     !.ids = ids] @@ [store |-> added.store]
          : added \in StoreAdd(st, ids, base.chunks, embeddings, base.metadatas)}

\* lines 86-99: the rest of add_documents once the embedder has returned
\* embeddings
AfterEmbedding(st, base, embeddings) ==
    IF Len(embeddings) = 0
    THEN {[base EXCEPT !.err = "EmptyEmbeddings", !.nemb = 0,
                       !.calls = <<"embed_documents">>] @@ [store |-> st]}
    ELSE
    LET start_index == Count(st)
        ids == MakeIds(start_index, Len(base.chunks))
    IN {[base EXCEPT !.err = added.err, !.nemb = Len(embeddings),
                     !.calls = <<"embed_documents", "count", "add">>,
                     !.start = start_index,
                     !.ids = ids] @@ [store |-> added.store]
          : added \in StoreAdd(st, ids, base.chunks, embeddings, base.metadatas)}

\* the rest of add_documents without the `if not chunks` test
AfterChunking_NoEmptyCheck(st, built) ==
    LET base == [NoCall EXCEPT !.chunks = [i \in 1..Len(built) |-> built[i].text],
                               !.metadatas = [i \in 1..Len(built) |-> built[i].meta]]
    IN {[base EXCEPT !.err = "EmbedderFailure",
                     !.calls = <<"embed_documents">>] @@ [store |-> st]}
       \cup UNION {AfterEmbedding(st, base, EmbedDocuments(base.chunks, emb))
                      : emb \in EmbOutcomes}

\* lines 77-99: the rest of add_documents once the chunks are built
AfterChunking(st, built) ==
    LET base == [NoCall EXCEPT !.chunks = [i \in 1..Len(built) |-> built[i].text],
                               !.metadatas = [i \in 1..Len(built) |-> built[i].meta]]
    IN IF Len(built) = 0
       THEN {[base EXCEPT !.err = "NoValidChunks"] @@ [store |-> st]}
       ELSE {[base EXCEPT !.err = "EmbedderFailure",
                          !.calls = <<"embed_documents">>] @@ [store |-> st]}
            \cup UNION {AfterEmbedding(st, base, EmbedDocuments(base.chunks, emb))
                           : emb \in EmbOutcomes}

\* add_documents as a function of the collection and the arguments: the set
\* of possible results (one per outcome of the collaborators), each with the
\* error raised, the collaborator calls made in order, the number of
\* embeddings the embedder returned, start_index, the ids passed to add, and
\* the collection afterwards.
add_documents(st, documents) ==
    IF Len(documents) = 0
    THEN {[NoCall EXCEPT !.err = "NoDocuments"] @@ [store |-> st]}
    ELSE AfterChunking(st, BuildChunks(documents))

-----------------------------------------------------------------------------
(* vectordb.py: VectorDB.search;  app.py: RAGAssistant.ask *)

Fallback == <<"I don't have this information.">>
Generated == <<"<answer generated from> ">>

\* search(query, n_results): the set of possible results, one where
\* embed_query raises and one where it returns
search(st, query, n_results) ==
    IF IsBlank(query)
    THEN {[err |-> "QueryCannotBeEmpty", calls |-> <<>>,
           documents |-> <<>>, metadatas |-> <<>>]}
    ELSE LET result == StoreQuery(st, Embed(query), n_results)
         IN {[err |-> "EmbedderFailure", calls |-> <<"embed_query">>,
              documents |-> <<>>, metadatas |-> <<>>],
             [err |-> "none", calls |-> <<"embed_query", "query">>,
              documents |-> [i \in 1..Len(result) |-> result[i].text],
              metadatas |-> [i \in 1..Len(result) |-> result[i].meta]]}

DefaultNResults == 5
ContextWindow == 2

\* ask without the `if not results["documents"]` test
Answer_NoEmptyCheck(results) ==
    LET none == [err |-> "none", calls |-> results.calls \o <<"chain">>,
                 ret |-> <<>>, retrieved |-> results.documents]
    IN {[none EXCEPT !.err = "GenerationFailure"],
        [none EXCEPT !.ret = Fallback],
        [none EXCEPT !.ret = Generated]}

\* lines 111-121 of ask, given what search returned
Answer(results) ==
    LET none == [err |-> "none", calls |-> results.calls, ret |-> <<>>,
                 retrieved |-> results.documents]
    IN IF Len(results.documents) = 0
       THEN {[none EXCEPT !.ret = Fallback]}
       ELSE
       LET context == JoinWith(<<"\n", "-", "-", "-", "\n">>,
                               SubSeq(results.documents, 1,
                                      IF Len(results.documents) < ContextWindow
                                      THEN Len(results.documents) ELSE ContextWindow))
           withChain == [none EXCEPT !.calls = results.calls \o <<"chain">>]
       IN {[withChain EXCEPT !.err = "GenerationFailure"],
           [withChain EXCEPT !.ret = Fallback],
           [withChain EXCEPT !.ret = Generated \o context]}

\* ask(query): the set of possible results (one per outcome of the
\* collaborators), each with the error raised, the collaborator calls made in
\* order, the string returned and the documents retrieved
ask(st, query) ==
    IF validate_query(query) # "none"
    THEN {[err |-> validate_query(query), calls |-> <<>>, ret |-> <<>>,
           retrieved |-> <<>>]}
    ELSE UNION {IF results.err # "none"
                THEN {[err |-> results.err, calls |-> results.calls,
                       ret |-> <<>>, retrieved |-> <<>>]}
                ELSE Answer(results)
                  : results \in search(st, query, DefaultNResults)}

-----------------------------------------------------------------------------
(* Inputs *)

DocSky == [isStr |-> TRUE, segs |-> << <<"s","k","y">> >>]
DocTwo == [isStr |-> TRUE, segs |-> << <<"a","b"," ">>, <<" ">>, <<"c">> >>]
DocBlank == [isStr |-> TRUE, segs |-> << <<" ","\n">> >>]
DocNone == [isStr |-> FALSE, segs |-> <<>>]

Docs == {DocSky, DocTwo, DocBlank, DocNone}

\* every documents list of at most MaxDocs entries
DocLists == UNION {[1..n -> Docs] : n \in 0..MaxDocs}

\* the documents lists passed to add_documents on the persisted collection
IngestInputs ==
    { <<>>,
      <<DocBlank>>,
      <<DocNone, DocBlank>>,
      <<DocSky>>,
      <<DocTwo>>,
      <<DocBlank, DocSky>>,
      <<DocSky, DocTwo>>,
      <<DocTwo, DocNone, DocSky>> }

Queries ==
    { <<>>,
      <<" ">>,
      <<"s","k","y","?">>,
      <<"h","a","t">>,
      <<"I"," ","H","a","T","e"," ","i","t">>,
      <<"V","I","O","L","E","N","C","E">> }

NoOp == [op |-> "none", documents |-> <<>>, query |-> <<>>, nemb |-> -1,
         err |-> "none", calls |-> <<>>, start |-> -1, ids |-> <<>>,
         chunks |-> <<>>, metadatas |-> <<>>, ret |-> <<>>, retrieved |-> <<>>]

-----------------------------------------------------------------------------
(* Single-writer use of the objects: one process at a time constructs a    *)
(* RAGAssistant over the persisted collection and calls its methods.       *)

NoDir == [exists |-> FALSE, files |-> <<>>]
NoInput == [kind |-> "none", text |-> <<>>]

IdleMain == /\ dataDir = NoDir /\ startups = 0 /\ asked = FALSE /\ lastLine = NoInput

Writers == {1, 2}

NoBatch == [chunks |-> <<>>, metadatas |-> <<>>, embeddings |-> <<>>, ids |-> <<>>]

IdleWriters ==
    /\ wpc = [w \in Writers |-> "idle"]
    /\ wbatch = [w \in Writers |-> NoBatch]
    /\ wstart = [w \in Writers |-> -1]
    /\ stale = [w \in Writers |-> FALSE]
    /\ lock = 0
    /\ useLock = FALSE

mainVars == <<dataDir, startups, asked, lastLine>>
writerVars == <<wpc, wbatch, wstart, stale, lock, useLock>>

Init ==
    /\ store = <<>>
    /\ pc = "down"
    /\ lastOp = NoOp
    /\ IdleMain
    /\ IdleWriters

\* VectorDB.__init__: get_or_create_collection loads the persisted collection
Construct ==
    /\ pc = "down"
    /\ pc' = "up"
    /\ lastOp' = NoOp
    /\ UNCHANGED <<store, mainVars, writerVars>>

\* the process ends; the collection stays on disk
Terminate ==
    /\ pc = "up"
    /\ pc' = "down"
    /\ lastOp' = NoOp
    /\ UNCHANGED <<store, mainVars, writerVars>>

AddDocuments ==
    /\ pc = "up"
    /\ \E documents \in IngestInputs :
         \E r \in add_documents(store, documents) :
            /\ Len(r.store) <= MaxStore
            /\ store' = r.store
            /\ lastOp' = [NoOp EXCEPT !.op = "add_documents",
                                      !.documents = documents, !.nemb = r.nemb,
                                      !.err = r.err, !.calls = r.calls,
                                      !.start = r.start, !.ids = r.ids,
                                      !.chunks = r.chunks]
    /\ UNCHANGED <<pc, mainVars, writerVars>>

Ask ==
    /\ pc = "up"
    /\ \E query \in Queries :
         \E r \in ask(store, query) :
            lastOp' = [NoOp EXCEPT !.op = "ask", !.query = query,
                                  !.err = r.err, !.calls = r.calls,
                                  !.ret = r.ret, !.retrieved = r.retrieved]
    /\ UNCHANGED <<store, pc, mainVars, writerVars>>

Next == Construct \/ Terminate \/ AddDocuments \/ Ask

Spec == Init /\ [][Next]_vars

-----------------------------------------------------------------------------
(* Properties of single-writer use *)

InSeq(x, s) == \E i \in 1..Len(s) : s[i] = x

\* C1: a successful add_documents whose documents produce n non-blank chunks
\* reads start = count() before the write, leaves count() = start + n, and
\* writes exactly the ids chunk_{start} .. chunk_{start+n-1}, one per chunk in
\* chunk order, without gap or duplicate.
C1_IngestAssignsSequentialIds ==
    [][(lastOp'.op = "add_documents" /\ lastOp'.err = "none") =>
         LET n == Len(lastOp'.chunks)
             start == Len(store)
         IN /\ n >= 1
            /\ lastOp'.start = start
            /\ Len(store') = start + n
            /\ SubSeq(store', 1, start) = store
            /\ lastOp'.ids = [i \in 1..n |-> "chunk_" \o ToString(start + i - 1)]
            /\ \A i \in 1..n : /\ store'[start + i].id = lastOp'.ids[i]
                               /\ store'[start + i].text = lastOp'.chunks[i]
            /\ \A i, j \in 1..n : i # j => lastOp'.ids[i] # lastOp'.ids[j]]_vars

C1_Witness ==
    /\ lastOp.op = "add_documents" /\ lastOp.err = "none"
    /\ lastOp.start = 2 /\ Len(lastOp.chunks) = 2
    /\ lastOp.ids = <<"chunk_2", "chunk_3">>
    /\ Len(store) = 4

\* C2: across single-writer ingests and restarts no two records of the
\* collection share an id, and the ids are exactly chunk_0 .. chunk_{count()-1}.
C2_IdsUniqueAndDense ==
    /\ \A i, j \in 1..Len(store) : i # j => store[i].id # store[j].id
    /\ {store[i].id : i \in 1..Len(store)}
         = {"chunk_" \o ToString(k) : k \in 0..(Len(store) - 1)}

\* a process has just been started again on a collection that earlier
\* processes filled
C2_Witness ==
    /\ pc = "up" /\ lastOp.op = "none"
    /\ Len(store) >= 3

\* C3: a query that is empty or blank, or that contains a blocked term
\* (case-insensitive substring), is refused by validate_query before the
\* embedder, the store query or the chain is called.
C3_BlockedBeforeRetrieval ==
    (/\ lastOp.op = "ask"
     /\ \/ Len(lastOp.query) = 0
        \/ \A i \in 1..Len(lastOp.query) : lastOp.query[i] \in WS
        \/ \E t \in 1..Len(BLOCKED_TERMS) :
              Contains(BLOCKED_TERMS[t], Lower(lastOp.query)))
    => /\ lastOp.err \in {"EmptyQueryNotAllowed", "SafetyViolation"}
       /\ lastOp.calls = <<>>
       /\ lastOp.ret = <<>>

C3_Witness ==
    /\ lastOp.op = "ask"
    /\ lastOp.query = <<"I"," ","H","a","T","e"," ","i","t">>
    /\ lastOp.err = "SafetyViolation"
    /\ Len(store) > 0

\* C4: add_documents on an empty list fails with the no-documents error, on a
\* list of only blank or non-string entries with the no-chunks error; in both
\* cases no collaborator (embedder, count, add) is called and the collection is
\* unchanged.
C4_EmptyInputRejected ==
    [][lastOp'.op = "add_documents" =>
         LET documents == lastOp'.documents
             onlySkipped == \A i \in 1..Len(documents) :
                               \/ ~documents[i].isStr
                               \/ \A c \in 1..Len(DocText(documents[i])) :
                                     DocText(documents[i])[c] \in WS
         IN /\ Len(documents) = 0 => lastOp'.err = "NoDocuments"
            /\ (Len(documents) > 0 /\ onlySkipped) => lastOp'.err = "NoValidChunks"
            /\ (Len(documents) = 0 \/ onlySkipped) =>
                  /\ lastOp'.calls = <<>>
                  /\ store' = store]_vars

C4_Witness ==
    /\ lastOp.op = "add_documents"
    /\ lastOp.documents = <<DocNone, DocBlank>>
    /\ lastOp.err = "NoValidChunks"
    /\ Len(store) > 0

\* C6: for a query that passes validation, when retrieval returns no document
\* (in particular on an empty collection, which is not an error) ask returns
\* exactly the fallback string and the chain is not called; the chain is
\* called only when at least one chunk was retrieved.
C6_FallbackWithoutContext ==
    lastOp.op = "ask" =>
        /\ (InSeq("query", lastOp.calls) /\ Len(lastOp.retrieved) = 0) =>
              /\ lastOp.err = "none"
              /\ lastOp.ret = <<"I don't have this information.">>
              /\ ~InSeq("chain", lastOp.calls)
        /\ (InSeq("query", lastOp.calls) /\ Len(store) = 0) =>
              Len(lastOp.retrieved) = 0
        /\ InSeq("chain", lastOp.calls) => Len(lastOp.retrieved) >= 1

C6_Witness ==
    /\ lastOp.op = "ask" /\ Len(store) = 0
    /\ lastOp.query = <<"s","k","y","?">>
    /\ lastOp.calls = <<"embed_query", "query">>
    /\ lastOp.ret = Fallback

\* C9 as stated: whenever the embedder returns an empty result or one whose
\* length differs from the number of chunks, add_documents fails with the
\* embedding error before count() is read and before add is called.
C9_AsStated ==
    (/\ lastOp.op = "add_documents"
     /\ lastOp.nemb >= 0
     /\ lastOp.nemb # Len(lastOp.chunks))
    => /\ lastOp.err = "EmptyEmbeddings"
       /\ lastOp.calls = <<"embed_documents">>

\* C9 amended: an empty result of the embedder fails add_documents with the
\* embedding error before count() is read and before add is called; a
\* non-empty result of the wrong length is passed on, count() is read and add
\* is called, and the store refuses it; in both cases no record is written.
C9_EmbeddingMismatch ==
    [][(/\ lastOp'.op = "add_documents"
        /\ lastOp'.nemb >= 0
        /\ lastOp'.nemb # Len(lastOp'.chunks))
       => /\ store' = store
          /\ lastOp'.nemb = 0 =>
                /\ lastOp'.err = "EmptyEmbeddings"
                /\ lastOp'.calls = <<"embed_documents">>
          /\ lastOp'.nemb > 0 =>
                /\ lastOp'.err = "StoreValidation"
                /\ lastOp'.calls = <<"embed_documents", "count", "add">>]_vars

C9_Witness ==
    /\ lastOp.op = "add_documents"
    /\ Len(lastOp.chunks) = 2 /\ lastOp.nemb = 3
    /\ lastOp.err = "StoreValidation"
    /\ Len(store) > 0

-----------------------------------------------------------------------------
(* app.py: load_documents and main *)

\* a file of data/: whether its name ends with .txt in any case, whether it
\* can be opened and decoded, and its content
FileSky == [txt |-> TRUE, readable |-> TRUE, doc |-> DocSky]
FileTwo == [txt |-> TRUE, readable |-> TRUE, doc |-> DocTwo]
FileBlank == [txt |-> TRUE, readable |-> TRUE, doc |-> DocBlank]
FileBroken == [txt |-> TRUE, readable |-> FALSE, doc |-> DocSky]
FileOther == [txt |-> FALSE, readable |-> TRUE, doc |-> DocSky]

DataDirs ==
    { NoDir,
      [exists |-> TRUE, files |-> <<>>],
      [exists |-> TRUE, files |-> <<FileBlank, FileOther>>],
      [exists |-> TRUE, files |-> <<FileBroken, FileSky>>],
      [exists |-> TRUE, files |-> <<FileSky, FileBlank, FileTwo>>] }

\* os.listdir(path): the files in an arbitrary order
Listings(files) ==
    {[i \in 1..Len(files) |-> files[f[i]]] :
        f \in {g \in [1..Len(files) -> 1..Len(files)] :
                  \A i, j \in 1..Len(files) : i # j => g[i] # g[j]}}

\* load_documents(documents_path), given the order listdir returned
load_documents(dir, listing) ==
    IF ~dir.exists THEN [err |-> "FileNotFound", documents |-> <<>>]
    ELSE LET kept == SelectSeq(listing,
                        LAMBDA f : /\ f.txt
                                   /\ f.readable
                                   /\ Len(Strip(DocText(f.doc))) # 0)
             documents == [i \in 1..Len(kept) |-> kept[i].doc]
         IN IF Len(documents) = 0
            THEN [err |-> "NoValidDocuments", documents |-> <<>>]
            ELSE [err |-> "none", documents |-> documents]

\* a start-up that indexes the documents only into an empty collection
main_startup_SkipIfIndexed(st, dir, listing) ==
    LET loaded == load_documents(dir, listing)
    IN IF loaded.err # "none"
       THEN {[pc |-> "crashed", err |-> loaded.err, store |-> st,
              documents |-> <<>>, chunks |-> <<>>, ids |-> <<>>, start |-> -1]}
       ELSE IF Count(st) > 0
       THEN {[pc |-> "loop", err |-> "none", store |-> st,
              documents |-> loaded.documents, chunks |-> <<>>, ids |-> <<>>,
              start |-> -1]}
       ELSE {[pc |-> IF r.err = "none" THEN "loop" ELSE "crashed",
              err |-> r.err, store |-> r.store,
              documents |-> loaded.documents, chunks |-> r.chunks,
              ids |-> r.ids, start |-> r.start]
               : r \in add_documents(st, loaded.documents)}

\* main(), lines 125-136: the set of possible outcomes of the start-up
main_startup(st, dir, listing) ==
    LET loaded == load_documents(dir, listing)
    IN IF loaded.err # "none"
       THEN {[pc |-> "crashed", err |-> loaded.err, store |-> st,
              documents |-> <<>>, chunks |-> <<>>, ids |-> <<>>, start |-> -1]}
       ELSE {[pc |-> IF r.err = "none" THEN "loop" ELSE "crashed",
              err |-> r.err, store |-> r.store,
              documents |-> loaded.documents, chunks |-> r.chunks,
              ids |-> r.ids, start |-> r.start]
               : r \in add_documents(st, loaded.documents)}

Quit == <<"q","u","i","t">>

\* one iteration of `while True` with a try that lets the error escape
loop_body_NoTry(st, inp) ==
    IF inp.kind = "eof"
    THEN {[pc |-> "crashed", op |-> "input", err |-> "EOFError",
           query |-> <<>>, ret |-> <<>>, calls |-> <<>>, retrieved |-> <<>>]}
    ELSE LET query == Strip(inp.text)
         IN IF Lower(query) = Quit
            THEN {[pc |-> "exited", op |-> "quit", err |-> "none",
                   query |-> query, ret |-> <<>>, calls |-> <<>>, retrieved |-> <<>>]}
            ELSE {[pc |-> IF r.err = "none" THEN "loop" ELSE "crashed",
                   op |-> "ask", err |-> r.err,
                   query |-> query, ret |-> r.ret, calls |-> r.calls,
                   retrieved |-> r.retrieved]
                    : r \in ask(st, query)}

\* main(), lines 138-151: one iteration of `while True`, given what input()
\* produced (a line, or end of input): where the process is afterwards, the
\* error raised, and what ask returned
loop_body(st, inp) ==
    IF inp.kind = "eof"
    THEN {[pc |-> "crashed", op |-> "input", err |-> "EOFError",
           query |-> <<>>, ret |-> <<>>, calls |-> <<>>, retrieved |-> <<>>]}
    ELSE LET query == Strip(inp.text)
         IN IF Lower(query) = Quit
            THEN {[pc |-> "exited", op |-> "quit", err |-> "none",
                   query |-> query, ret |-> <<>>, calls |-> <<>>, retrieved |-> <<>>]}
            ELSE {[pc |-> "loop", op |-> "ask", err |-> r.err,
                   query |-> query, ret |-> r.ret, calls |-> r.calls,
                   retrieved |-> r.retrieved]
                    : r \in ask(st, query)}

\* what input() can produce
Inputs ==
    {[kind |-> "eof", text |-> <<>>]} \cup
    {[kind |-> "line", text |-> t] :
        t \in { <<>>,
                <<"s","k","y","?">>,
                <<"V","I","O","L","E","N","C","E">>,
                <<"q","u","i","t">>,
                <<" ","Q","u","i","T"," ">>,
                <<"q","u","i","t","e">> }}

InitMain ==
    /\ store = <<>>
    /\ pc = "off"
    /\ lastOp = NoOp
    /\ dataDir \in DataDirs
    /\ startups = 0
    /\ asked = FALSE
    /\ lastLine = NoInput
    /\ IdleWriters

\* python app.py, up to the first prompt
Startup ==
    /\ pc \in {"off", "exited", "crashed"}
    /\ startups < MaxStartups
    /\ \E listing \in Listings(dataDir.files) :
         \E r \in main_startup(store, dataDir, listing) :
            /\ pc' = r.pc
            /\ store' = r.store
            /\ startups' = IF r.pc = "loop" THEN startups + 1 ELSE startups
            /\ lastOp' = [NoOp EXCEPT !.op = "startup", !.err = r.err,
                                      !.documents = r.documents,
                                      !.chunks = r.chunks, !.ids = r.ids,
                                      !.start = r.start]
    /\ asked' = FALSE
    /\ lastLine' = NoInput
    /\ UNCHANGED <<dataDir, writerVars>>

\* one prompt of the query loop
Prompt ==
    /\ pc = "loop"
    /\ \E inp \in Inputs :
         \E r \in loop_body(store, inp) :
            /\ pc' = r.pc
            /\ lastLine' = inp
            /\ asked' = (asked \/ r.op = "ask")
            /\ lastOp' = [NoOp EXCEPT !.op = r.op, !.err = r.err,
                                      !.query = r.query, !.ret = r.ret,
                                      !.calls = r.calls,
                                      !.retrieved = r.retrieved]
    /\ UNCHANGED <<store, dataDir, startups, writerVars>>

NextMain == Startup \/ Prompt

SpecMain == InitMain /\ [][NextMain]_vars

\* C8 as stated: a start-up error (missing directory, no valid document, failed
\* first ingest) ends the process before any query is processed; an error
\* raised while answering a query is caught and the loop goes on; the loop
\* ends only when the user enters "quit".
C8_AsStated ==
    [][/\ lastOp'.op = "startup" =>
            /\ lastOp'.err # "none" <=> pc' = "crashed"
            /\ lastOp'.err = "none" <=> pc' = "loop"
            /\ ~asked'
       /\ lastOp'.op = "ask" => pc' = "loop"
       /\ (pc = "loop" /\ pc' # "loop") =>
            /\ pc' = "exited"
            /\ lastLine'.kind = "line"
            /\ Lower(Strip(lastLine'.text)) = <<"q","u","i","t">>]_vars

\* C8 amended: as stated, except that the loop ends when the user enters
\* "quit" (in any case, surrounded by any blanks) or when input() itself
\* raises at the end of the input, which is outside the try and ends the
\* process.
C8_OnlyStartupAndInputFatal ==
    [][/\ lastOp'.op = "startup" =>
            /\ lastOp'.err # "none" <=> pc' = "crashed"
            /\ lastOp'.err = "none" <=> pc' = "loop"
            /\ ~asked'
       /\ lastOp'.op = "ask" => pc' = "loop"
       /\ (pc = "loop" /\ pc' # "loop") =>
            \/ /\ pc' = "exited"
               /\ lastLine'.kind = "line"
               /\ Lower(Strip(lastLine'.text)) = <<"q","u","i","t">>
            \/ /\ pc' = "crashed"
               /\ lastLine'.kind = "eof"
               /\ lastOp'.err = "EOFError"]_vars

\* a query failed in the generation step and the loop is still prompting
C8_Witness ==
    /\ pc = "loop" /\ asked
    /\ lastOp.op = "ask" /\ lastOp.err = "GenerationFailure"
    /\ startups >= 1

\* the chunks the data directory produces, whatever the listing order
DirChunks(dir) ==
    UNION {{<<i, c>> : c \in {c \in 1..Len(dir.files[i].doc.segs) :
                                 \E k \in 1..Len(dir.files[i].doc.segs[c]) :
                                    dir.files[i].doc.segs[c][k] \notin WS}}
             : i \in {i \in 1..Len(dir.files) :
                         dir.files[i].txt /\ dir.files[i].readable}}

\* C10: every run of main() that reaches the loop appends the whole document
\* set again under fresh ids: after r such runs over an unchanged directory
\* producing n chunks, count() = r * n, each chunk text is stored r times under
\* r distinct ids, and no step removes or overwrites a record.
C10_ReingestOnEveryStartup ==
    [][LET n == Cardinality(DirChunks(dataDir))
       IN /\ SubSeq(store', 1, Len(store)) = store
          /\ Len(store') = startups' * n
          /\ \A p \in DirChunks(dataDir) :
               LET text == dataDir.files[p[1]].doc.segs[p[2]]
                   sameText == {q \in DirChunks(dataDir) :
                                  dataDir.files[q[1]].doc.segs[q[2]] = text}
               IN Cardinality({store'[i].id : i \in
                                  {i \in 1..Len(store') : store'[i].text = text}})
                    = startups' * Cardinality(sameText)]_vars

C10_Witness ==
    /\ startups = 2
    /\ Len(store) = 6
    /\ Cardinality({i \in 1..Len(store) : store[i].text = <<"s","k","y">>}) = 2
    /\ pc = "loop"

-----------------------------------------------------------------------------
(* Two writers inside add_documents on the same collection.  The call is   *)
(* split where another writer can run: after the embeddings are computed   *)
(* (lines 49-87), after count() is read and the ids are built (lines       *)
(* 90-91), and after collection.add (lines 94-99).  A call that raises     *)
(* before line 90 leaves the writer and the collection as they were.       *)

ConcInputs == { <<DocSky>>, <<DocTwo>>, <<DocNone, DocBlank>> }

\* the write lock held across count() and add(): free, or held by w itself
CanEnter(w) == ~useLock \/ lock = 0
Acquired(w) == IF useLock THEN w ELSE lock
Released(w) == IF useLock THEN 0 ELSE lock

InitConc ==
    /\ store = <<>>
    /\ pc = "writers"
    /\ lastOp = NoOp
    /\ IdleMain
    /\ wpc = [w \in Writers |-> "idle"]
    /\ wbatch = [w \in Writers |-> NoBatch]
    /\ wstart = [w \in Writers |-> -1]
    /\ stale = [w \in Writers |-> FALSE]
    /\ lock = 0
    /\ useLock \in BOOLEAN

\* lines 49-87
WEmbed(w) ==
    /\ wpc[w] = "idle"
    /\ \E documents \in ConcInputs, emb \in EmbOutcomes :
         LET built == BuildChunks(documents)
             chunks == [i \in 1..Len(built) |-> built[i].text]
             embeddings == EmbedDocuments(chunks, emb)
         IN /\ Len(documents) # 0
            /\ Len(built) # 0
            /\ Len(embeddings) # 0
            /\ wbatch' = [wbatch EXCEPT ![w] =
                             [chunks |-> chunks,
                              metadatas |-> [i \in 1..Len(built) |-> built[i].meta],
                              embeddings |-> embeddings,
                              ids |-> <<>>]]
    /\ wpc' = [wpc EXCEPT ![w] = "embedded"]
    /\ UNCHANGED <<store, pc, lastOp, mainVars, wstart, stale, lock, useLock>>

\* lines 90-91
WCount(w) ==
    /\ wpc[w] = "embedded"
    /\ CanEnter(w)
    /\ lock' = Acquired(w)
    /\ wstart' = [wstart EXCEPT ![w] = Count(store)]
    /\ wbatch' = [wbatch EXCEPT ![w].ids = MakeIds(Count(store), Len(wbatch[w].chunks))]
    /\ stale' = [stale EXCEPT ![w] = FALSE]
    /\ wpc' = [wpc EXCEPT ![w] = "counted"]
    /\ UNCHANGED <<store, pc, lastOp, mainVars, useLock>>

\* lines 94-99
WAdd(w) ==
    /\ wpc[w] = "counted"
    /\ \E added \in StoreAdd(store, wbatch[w].ids, wbatch[w].chunks,
                            wbatch[w].embeddings, wbatch[w].metadatas) :
         /\ Len(added.store) <= MaxStore
         /\ store' = added.store
         /\ lastOp' = [NoOp EXCEPT !.op = "add_documents", !.err = added.err]
    /\ lock' = Released(w)
    /\ wpc' = [wpc EXCEPT ![w] = "idle"]
    /\ wbatch' = [wbatch EXCEPT ![w] = NoBatch]
    /\ wstart' = [wstart EXCEPT ![w] = -1]
    /\ stale' = [v \in Writers |-> v # w /\ wpc[v] = "counted"]
    /\ UNCHANGED <<pc, mainVars, useLock>>

NextConc == \E w \in Writers : WEmbed(w) \/ WCount(w) \/ WAdd(w)

SpecConc == InitConc /\ [][NextConc]_vars

\* both writers have read count() and neither has performed add since
BothReadBeforeEitherAdd ==
    \A w \in Writers : wpc[w] = "counted" /\ ~stale[w]

\* C7: when two add_documents calls have both read count() before either
\* performs add, they hold the same start_index and both are about to write
\* the id chunk_{start_index}; with a lock held across count() and add() no
\* such state is reachable.
C7_ConcurrentWritersCollide ==
    /\ BothReadBeforeEitherAdd =>
          /\ wstart[1] = wstart[2]
          /\ \A w \in Writers :
                \E i \in 1..Len(wbatch[w].ids) :
                   wbatch[w].ids[i] = "chunk_" \o ToString(wstart[1])
    /\ useLock => ~(\A w \in Writers : wpc[w] = "counted")

\* without the lock, both writers are about to write chunk_0
C7_Witness ==
    /\ ~useLock
    /\ BothReadBeforeEitherAdd
    /\ wstart[1] = 0 /\ wstart[2] = 0
    /\ wbatch[1].ids[1] = "chunk_0" /\ wbatch[2].ids[1] = "chunk_0"

-----------------------------------------------------------------------------
(* The chunking loop of add_documents as a function of the documents list *)

InitChunk ==
    /\ store = <<>>
    /\ pc = "input"
    /\ \E documents \in DocLists : lastOp = [NoOp EXCEPT !.documents = documents]
    /\ IdleMain
    /\ IdleWriters

\* lines 57-75 of add_documents
Chunking ==
    /\ pc = "input"
    /\ pc' = "chunked"
    /\ LET built == BuildChunks(lastOp.documents)
       IN lastOp' = [lastOp EXCEPT !.op = "chunking",
                                   !.chunks = [i \in 1..Len(built) |-> built[i].text],
                                   !.metadatas = [i \in 1..Len(built) |-> built[i].meta]]
    /\ UNCHANGED <<store, mainVars, writerVars>>

NextChunk == Chunking

SpecChunk == InitChunk /\ [][NextChunk]_vars

IsValidDoc(doc) ==
    /\ doc.isStr
    /\ \E c \in 1..Len(DocText(doc)) : DocText(doc)[c] \notin WS

NonBlankCount(doc) ==
    Cardinality({c \in 1..Len(doc.segs) :
                    \E k \in 1..Len(doc.segs[c]) : doc.segs[c][k] \notin WS})

RECURSIVE Repeat(_, _)
Repeat(x, n) == IF n = 0 THEN <<>> ELSE <<x>> \o Repeat(x, n - 1)

RECURSIVE DocIdsWith(_, _, _)
\* the doc_id of every chunk, in order, when the valid document at position p
\* (from 1) is given the doc_id Rank[p]
DocIdsWith(documents, Rank, p) ==
    IF p > Len(documents) THEN <<>>
    ELSE (IF IsValidDoc(documents[p])
          THEN Repeat(Rank[p], NonBlankCount(documents[p]))
          ELSE <<>>)
         \o DocIdsWith(documents, Rank, p + 1)

ChunkDocIds == [i \in 1..Len(lastOp.metadatas) |-> lastOp.metadatas[i].doc_id]

\* C5 as stated: the doc_id of each chunk is the number of valid (non-skipped)
\* documents that precede its document in the input.
C5_AsStated ==
    pc = "chunked" =>
        ChunkDocIds =
            DocIdsWith(lastOp.documents,
                       [p \in 1..Len(lastOp.documents) |->
                          Cardinality({q \in 1..(p - 1) : IsValidDoc(lastOp.documents[q])})],
                       1)

\* C5 amended: the doc_id of each chunk is the zero-based position of its
\* document in the input list, skipped entries included, so a skipped entry
\* leaves a gap in the doc_ids; chunk_id is the position of the chunk in the
\* splitter's output for that document.
C5_DocIdIsInputPosition ==
    pc = "chunked" =>
        /\ ChunkDocIds =
              DocIdsWith(lastOp.documents,
                         [p \in 1..Len(lastOp.documents) |-> p - 1], 1)
        /\ \A i \in 1..Len(lastOp.metadatas) :
              LET m == lastOp.metadatas[i]
                  doc == lastOp.documents[m.doc_id + 1]
              IN /\ IsValidDoc(doc)
                 /\ doc.segs[m.chunk_id + 1] = lastOp.chunks[i]
                 /\ m.length = Len(lastOp.chunks[i])

C5_Witness ==
    /\ pc = "chunked"
    /\ lastOp.documents = <<DocBlank, DocSky, DocNone>>
    /\ ChunkDocIds = <<1>>

====
